---- MODULE Spec2Model ----
(***************************************************************************)
(* Resilient purchase-order ingestion (src/src/etl/etl_ingest_resilient.py) *)
(* as a state machine: the durable tables (etl_lock, etl_checkpoint,        *)
(* purchase_orders, etl_run_log), the wall clock, and one record of local   *)
(* state per orchestrator process.  Every database transaction of the code  *)
(* is one atomic step; the steps of different processes interleave.         *)
(* Further specifications over the same variables cover the backfill batch  *)
(* table (SpecBatch), the health evaluator (SpecEval), one invocation with  *)
(* its alert (SpecRun), a misbehaving source (SpecUpstream), the retries of *)
(* one page request (SpecClient), the shapes of a response body (SpecBody), *)
(* a load split into chunks (SpecChunk) and the batch marks called with any *)
(* batch id (SpecMark).                                                     *)
(***************************************************************************)
EXTENDS Integers, Sequences, FiniteSets, TLC

VARIABLES
    now,              \* wall clock / database clock, in minutes
    ticks,            \* number of clock advances explored so far
    runs,             \* number of run_etl invocations started so far
    overran,          \* history: time passed while some run was active
    FETCH_WORKERS,    \* env FETCH_WORKERS
    source_rows,      \* number of orders the upstream source holds
    etl_lock,         \* table etl_lock: set of rows
    etl_checkpoint,   \* table etl_checkpoint: job_name -> row or NoRow
    purchase_orders,  \* target table: set of rows
    etl_run_log,      \* table etl_run_log: sequence of rows
    proc,             \* per process: position in run_etl and its locals
    last_load,        \* history: the last upsert_dataframe call and its effect
    upstream,         \* how the upstream source paginates
    start_time,       \* per process: run_etl's local start_time
    ended,            \* history: invocations of run_etl that returned or raised
    alerts,           \* notifications handed to send_email
    last_eval,        \* history: the last evaluate_run call and its result
    call,             \* one fetch call: its retry counters, or its response body
    etl_batches,      \* table app_core.etl_batches: batch_id -> row
    row_locks,        \* row locks of open transactions: batch_id -> holder
    caller,           \* per backfill process: position and locals
    handed_out        \* history: per batch, times returned since it was last PENDING

etlVars == <<now, ticks, runs, overran, FETCH_WORKERS, source_rows, etl_lock,
             etl_checkpoint, purchase_orders, etl_run_log, proc, last_load>>

runVars == <<start_time, ended, alerts>>

batchVars == <<etl_batches, row_locks, caller, handed_out>>

aux == <<upstream, runVars, last_eval, call, batchVars>>

vars == <<etlVars, aux>>

----------------------------------------------------------------------------
(* Bounds of the exploration *)
MaxRuns == 2
MaxTicks == 1
MaxWorkers == 2
MaxSourceRows == 5
MaxPageOrders == 2

(* Program constants *)
CHUNK_SIZE == 2
StaleMinutes == 30
max_pages == 3
chunk_size_default == 2000
MinutesPerDay == 24 * 60

Procs == {"p1", "p2"}
Modes == {"daily", "historical"}
TickSteps == {StaleMinutes, MinutesPerDay}

NULL == "NULL"
NaN == "NaN"
NoRow == [absent |-> TRUE]
NoPage == [absent |-> TRUE]
NoLoad == [absent |-> TRUE]
NoTime == -1

Min(a, b) == IF a < b THEN a ELSE b

(* datetime.date() of a timestamp in minutes *)
DateOf(ts) == ts \div MinutesPerDay

(* JOB_NAME = f"{_JOB_BASE_NAME}_{MODE}" *)
JOB_NAME(mode) == mode

----------------------------------------------------------------------------
(* Row Transformer *)

Numerals == {"0", "1", "2"}

(* float(item.get(f) or 0) inside try/except: a falsy value parses as 0, *)
(* an unparsable one becomes None, which pandas holds as NaN             *)
ParseFloat(v) ==
    IF v \in {NULL, "", "0"} THEN "0"
    ELSE IF v \in Numerals THEN v
    ELSE NaN

(* df[c].fillna("").map("{:.6f}".format): NaN becomes the empty string *)
FormatNum(x) == IF x = NaN THEN "" ELSE x

(* pd.to_datetime(errors="coerce").dt.strftime(...).fillna("") *)
FormatDate(d) == IF d = NULL THEN "" ELSE d

(* md5 of the "|"-joined hashed columns, taken as collision free *)
SourceHash(po, line, product, qty, price, net, supplier, created) ==
    <<po, line, product, qty, price, net, supplier, created>>

ItemRow(order, item) ==
    LET qty     == FormatNum(ParseFloat(item.quantity))
        price   == FormatNum(ParseFloat(item.unit_price))
        net     == FormatNum(ParseFloat(item.net_value))
        created == FormatDate(order.created_date)
    IN  [purchase_order_id |-> order.purchase_order_id,
         line_item_number  |-> item.item_number,
         created_date      |-> created,
         status            |-> order.status,
         supplier_id       |-> order.supplier_id,
         purchasing_group  |-> order.purchasing_group,
         plant             |-> item.plant,
         product_id        |-> item.product_id,
         description       |-> item.description,
         quantity          |-> qty,
         unit              |-> item.unit,
         unit_price        |-> price,
         net_value         |-> net,
         material_group    |-> item.material_group,
         source_hash       |-> SourceHash(order.purchase_order_id, item.item_number,
                                          item.product_id, qty, price, net,
                                          order.supplier_id, created)]

RECURSIVE ItemRows(_, _)
ItemRows(order, items) ==
    IF items = <<>> THEN <<>>
    ELSE LET item == Head(items)
             rest == ItemRows(order, Tail(items))
         IN  IF item.item_number \in {NULL, ""} \/ item.product_id \in {NULL, ""}
             THEN rest
             ELSE <<ItemRow(order, item)>> \o rest

RECURSIVE transform_page_fast(_)
transform_page_fast(orders) ==
    IF orders = <<>> THEN <<>>
    ELSE LET order == Head(orders)
             rest  == transform_page_fast(Tail(orders))
         IN  IF order.purchase_order_id \in {NULL, ""}
             THEN rest
             ELSE ItemRows(order, order.items) \o rest

----------------------------------------------------------------------------
(* Idempotent Loader *)

KeyOf(r) == <<r.purchase_order_id, r.line_item_number>>

Stored(table, key) == {t \in table : KeyOf(t) = key}

(* ON CONFLICT (purchase_order_id, line_item_number) DO UPDATE SET <every   *)
(* non-key column> = excluded.<column> WHERE source_hash != excluded.hash   *)
ConflictAlways(stored, rec) == TRUE

ConflictUpdates(stored, rec) == stored.source_hash # rec.source_hash

UpdatedHashOnly(stored, rec) == [stored EXCEPT !.source_hash = rec.source_hash]

UpdatedRow(stored, rec) == rec

(* one row of one INSERT .. ON CONFLICT statement *)
UpsertRow(table, rec) ==
    LET old == Stored(table, KeyOf(rec))
    IN  IF old = {} THEN [table |-> table \cup {rec}, written |-> {KeyOf(rec)}]
        ELSE LET stored == CHOOSE t \in old : TRUE
             IN  IF ConflictUpdates(stored, rec)
                 THEN [table   |-> (table \ old) \cup {UpdatedRow(stored, rec)},
                       written |-> {KeyOf(rec)}]
                 ELSE [table |-> table, written |-> {}]

RECURSIVE UpsertRows(_, _)
UpsertRows(table, recs) ==
    IF recs = <<>> THEN [table |-> table, written |-> {}]
    ELSE LET one  == UpsertRow(table, Head(recs))
             more == UpsertRows(one.table, Tail(recs))
         IN  [table |-> more.table, written |-> one.written \cup more.written]

(* PostgreSQL rejects a statement that proposes the same key twice:  *)
(* "ON CONFLICT DO UPDATE command cannot affect row a second time"   *)
HasDuplicateKey(recs) ==
    \E i, j \in 1..Len(recs) : i < j /\ KeyOf(recs[i]) = KeyOf(recs[j])

Take(s, n) == SubSeq(s, 1, Min(n, Len(s)))
Drop(s, n) == SubSeq(s, Min(n, Len(s)) + 1, Len(s))

RECURSIVE UpsertChunks(_, _, _)
UpsertChunks(table, recs, chunk_size) ==
    IF recs = <<>> THEN [ok |-> TRUE, table |-> table, written |-> {}]
    ELSE LET batch == Take(recs, chunk_size)
         IN  IF HasDuplicateKey(batch)
             THEN [ok |-> FALSE, table |-> table, written |-> {}]
             ELSE LET one  == UpsertRows(table, batch)
                      more == UpsertChunks(one.table, Drop(recs, chunk_size), chunk_size)
                  IN  [ok      |-> more.ok,
                       table   |-> more.table,
                       written |-> one.written \cup more.written]

(* upsert_dataframe: every chunk runs inside the one engine.begin() block, *)
(* so a failed statement rolls the whole call back                         *)
upsert_dataframe(df, table, chunk_size) ==
    IF df = <<>> THEN [ok |-> TRUE, table |-> table, written |-> {}, inserted |-> 0]
    ELSE LET res == UpsertChunks(table, df, chunk_size)
         IN  IF res.ok
             THEN [ok |-> TRUE, table |-> res.table, written |-> res.written,
                   inserted |-> Len(df)]
             ELSE [ok |-> FALSE, table |-> table, written |-> {}, inserted |-> 0]

----------------------------------------------------------------------------
(* Upstream source and HTTP Fetch Client *)

Order(i) ==
    [purchase_order_id |-> ToString(i),
     created_date      |-> "2024-01-01",
     status            |-> "open",
     supplier_id       |-> "S1",
     purchasing_group  |-> "G1",
     items |-> <<[item_number    |-> "10",
                  product_id     |-> "P1",
                  quantity       |-> "1",
                  unit_price     |-> "1",
                  net_value      |-> "1",
                  plant          |-> "PL1",
                  description    |-> "d1",
                  unit           |-> "EA",
                  material_group |-> "M1"]>>]

(* the page a well-behaved source serves for (offset, limit) *)
SourcePage(off, limit, total) ==
    LET n == IF total > off THEN Min(limit, total - off) ELSE 0
    IN  [ok       |-> TRUE,
         offset   |-> off,
         items    |-> [k \in 1..n |-> Order(off + k - 1)],
         returned |-> n,
         has_more |-> off + limit < total]

(* what the source answers: as agreed ("exact"); a full page cut short  *)
(* while more is reported ("short"); has_more = true on every page      *)
(* ("endless")                                                          *)
Behaviours == {"exact", "short", "endless"}

ServedPage(behaviour, off, limit, total) ==
    LET exact == SourcePage(off, limit, total)
    IN  IF behaviour = "short" /\ exact.has_more /\ exact.returned = limit
        THEN [exact EXCEPT !.items = Take(exact.items, limit - 1),
                           !.returned = limit - 1]
        ELSE IF behaviour = "endless" THEN [exact EXCEPT !.has_more = TRUE]
        ELSE exact

FetchFailed(off) == [ok |-> FALSE, offset |-> off]

(* fetch_offset: the page, or an exception once the retries are used up *)
fetch_offset(behaviour, off, limit, total) ==
    {ServedPage(behaviour, off, limit, total), FetchFailed(off)}

----------------------------------------------------------------------------
(* Checkpoint Store *)

get_checkpoint(ckpt, job) ==
    IF ckpt[job] = NoRow THEN [last_offset |-> 0, last_run |-> NoTime]
    ELSE [last_offset |-> ckpt[job].last_offset, last_run |-> ckpt[job].last_run]

save_checkpoint(ckpt, job, off, t) ==
    [ckpt EXCEPT ![job] = [last_offset |-> off, last_run |-> t]]

(* run_etl lines 484-504: the offset a run starts from, and whether the *)
(* checkpoint is first rewritten to 0                                   *)
ResolveOffsetNoReset(mode, cp, today) ==
    [offset |-> cp.last_offset, reset |-> FALSE]

ResolveOffsetSameDay(mode, cp, today) ==
    IF mode = "daily" /\ cp.last_run # NoTime /\ DateOf(cp.last_run) <= today
    THEN [offset |-> 0, reset |-> TRUE]
    ELSE [offset |-> cp.last_offset, reset |-> FALSE]

ResolveOffsetAnyMode(mode, cp, today) ==
    IF cp.last_run # NoTime /\ DateOf(cp.last_run) < today
    THEN [offset |-> 0, reset |-> TRUE]
    ELSE [offset |-> cp.last_offset, reset |-> FALSE]

ResolveOffset(mode, cp, today) ==
    IF mode = "daily" /\ cp.last_run # NoTime /\ DateOf(cp.last_run) < today
    THEN [offset |-> 0, reset |-> TRUE]
    ELSE [offset |-> cp.last_offset, reset |-> FALSE]

----------------------------------------------------------------------------
(* Run Lock *)

RunningRows(lock, job) == {r \in lock : r.job_name = job /\ r.status = "running"}

JobRows(lock, job) == {r \in lock : r.job_name = job}

(* acquire_lock lines 145-153: what the SELECT's result leads to *)
LockDecisionNoStale(rows, t) ==
    IF rows = {} THEN "insert" ELSE "raise"

LockDecisionAlwaysClear(rows, t) ==
    IF rows = {} THEN "insert" ELSE "clear"

LockDecision(rows, t) ==
    IF rows = {} THEN "insert"
    ELSE LET row == CHOOSE r \in rows : TRUE
         IN  IF t - row.started_at > StaleMinutes THEN "clear" ELSE "raise"

(* DELETE FROM etl_lock WHERE job_name = :job *)
DeleteLock(lock, job) == lock \ JobRows(lock, job)

(* INSERT .. ON CONFLICT (job_name) DO UPDATE SET started_at = now(), status = 'running' *)
InsertLockNoConflict(lock, job, t) ==
    lock \cup {[job_name |-> job, started_at |-> t, status |-> "running"]}

InsertLock(lock, job, t) ==
    DeleteLock(lock, job) \cup {[job_name |-> job, started_at |-> t, status |-> "running"]}

(* release_lock *)
release_lock(lock, job) == DeleteLock(lock, job)

----------------------------------------------------------------------------
(* Parallel Page Fetcher (the generator parallel_fetch), as updates of the *)
(* locals of the process that drives it                                    *)

(* lines 257-269: the initial batch of requests *)
StartFetchOneMore(r, workers) ==
    LET queue == {r.offset + i * CHUNK_SIZE : i \in 0..workers}
    IN  [r EXCEPT !.pc = "fetch",
                  !.lock_txn = NoTime,
                  !.submitted = queue,
                  !.pending = queue,
                  !.next_offset = r.offset + (workers + 1) * CHUNK_SIZE,
                  !.page_counter = 0,
                  !.page = NoPage]

StartFetch(r, workers) ==
    LET queue == {r.offset + i * CHUNK_SIZE : i \in 0..(workers - 1)}
    IN  [r EXCEPT !.pc = "fetch",
                  !.lock_txn = NoTime,
                  !.submitted = queue,
                  !.pending = queue,
                  !.next_offset = r.offset + workers * CHUNK_SIZE,
                  !.page_counter = 0,
                  !.page = NoPage]

(* the generator is exhausted or closed: run_etl leaves its for loop *)
EndFetch(r) ==
    [r EXCEPT !.pc = "release", !.submitted = {}, !.pending = {}, !.page = NoPage]

(* lines 271-272: the as_completed pass is over a snapshot of submitted; *)
(* when it is used up, `while submitted` takes a new one                 *)
NextPass(r) ==
    IF r.pending # {} THEN [r EXCEPT !.pc = "fetch"]
    ELSE IF r.submitted # {} THEN [r EXCEPT !.pc = "fetch", !.pending = r.submitted]
    ELSE EndFetch(r)

(* lines 295-306: the generator resumes after its yield *)
ResumeEndsOnShortPage(r) ==
    LET counted == [r EXCEPT !.page_counter = r.page_counter + 1, !.page = NoPage]
    IN  IF ~r.page.has_more \/ r.page.returned < CHUNK_SIZE THEN EndFetch(counted)
        ELSE IF counted.page_counter < max_pages
        THEN NextPass([counted EXCEPT
                 !.submitted = counted.submitted \cup {counted.next_offset},
                 !.next_offset = counted.next_offset + CHUNK_SIZE])
        ELSE NextPass(counted)

Resume(r) ==
    LET counted == [r EXCEPT !.page_counter = r.page_counter + 1, !.page = NoPage]
    IN  IF ~r.page.has_more THEN EndFetch(counted)
        ELSE IF counted.page_counter < max_pages
        THEN NextPass([counted EXCEPT
                 !.submitted = counted.submitted \cup {counted.next_offset},
                 !.next_offset = counted.next_offset + CHUNK_SIZE])
        ELSE NextPass(counted)

----------------------------------------------------------------------------
(* Initial states *)

IdleProc(mode, truncate) ==
    [pc |-> "idle", MODE |-> mode, HISTORICAL_TRUNCATE |-> truncate,
     offset |-> 0, total_processed |-> 0, status |-> "success", error_msg |-> NULL,
     lock_txn |-> NoTime, lock_decision |-> NULL,
     submitted |-> {}, pending |-> {}, next_offset |-> 0, page_counter |-> 0,
     page |-> NoPage,
     reset_seen |-> FALSE, fetch_failed |-> FALSE, pages_saved |-> 0, returned_sum |-> 0]

AbsentProc == [IdleProc("daily", FALSE) EXCEPT !.pc = "absent"]

EmptyStore ==
    /\ now = 0
    /\ ticks = 0
    /\ runs = 0
    /\ overran = FALSE
    /\ etl_lock = {}
    /\ etl_checkpoint = [m \in Modes |-> NoRow]
    /\ purchase_orders = {}
    /\ etl_run_log = <<>>
    /\ last_load = NoLoad

(* the parts of the system a specification leaves out *)
ExactUpstream == upstream = "exact"

NoInvocation ==
    /\ start_time = [p \in Procs |-> NoTime]
    /\ ended = 0
    /\ alerts = <<>>

NoEval == [absent |-> TRUE]

NoEvaluation == last_eval = NoEval

NoCall == call = [absent |-> TRUE]

NoBatches ==
    /\ etl_batches = <<>>
    /\ row_locks = {}
    /\ caller = <<>>
    /\ handed_out = <<>>

Job(p) == JOB_NAME(proc[p].MODE)

Active(p) == proc[p].pc \notin {"idle", "absent"}

----------------------------------------------------------------------------
(* run_etl, one action per transaction *)

(* lines 467-478: a new invocation; optional_truncate_for_historical's TRUNCATE *)
StartRun(p) ==
    /\ proc[p].pc = "idle"
    /\ runs < MaxRuns
    /\ runs' = runs + 1
    /\ LET r     == proc[p]
           fresh == IdleProc(r.MODE, r.HISTORICAL_TRUNCATE)
       IN  IF r.MODE = "historical" /\ r.HISTORICAL_TRUNCATE
           THEN /\ purchase_orders' = {}
                /\ proc' = [proc EXCEPT ![p] = [fresh EXCEPT !.pc = "truncate_save"]]
           ELSE /\ purchase_orders' = purchase_orders
                /\ proc' = [proc EXCEPT ![p] =
                               [fresh EXCEPT !.pc = "resolve"]]
    /\ UNCHANGED <<now, ticks, overran, FETCH_WORKERS, source_rows, etl_lock,
                   etl_checkpoint, etl_run_log, last_load>>
    /\ UNCHANGED aux

(* line 187: optional_truncate_for_historical's save_checkpoint(JOB_NAME, 0) *)
TruncateSave(p) ==
    /\ proc[p].pc = "truncate_save"
    /\ etl_checkpoint' = save_checkpoint(etl_checkpoint, Job(p), 0, now)
    /\ proc' = [proc EXCEPT ![p].pc = "resolve"]
    /\ UNCHANGED <<now, ticks, runs, overran, FETCH_WORKERS, source_rows, etl_lock,
                   purchase_orders, etl_run_log, last_load>>
    /\ UNCHANGED aux

(* lines 484-504: get_checkpoint and the choice of the starting offset *)
Resolve(p) ==
    /\ proc[p].pc = "resolve"
    /\ LET res == ResolveOffset(proc[p].MODE, get_checkpoint(etl_checkpoint, Job(p)),
                                DateOf(now))
       IN  proc' = [proc EXCEPT ![p].offset = res.offset,
                                ![p].reset_seen = res.reset,
                                ![p].pc = IF res.reset THEN "reset_save" ELSE "acquire"]
    /\ UNCHANGED <<now, ticks, runs, overran, FETCH_WORKERS, source_rows, etl_lock,
                   etl_checkpoint, purchase_orders, etl_run_log, last_load>>
    /\ UNCHANGED aux

(* line 497: the daily reset is saved *)
ResetSave(p) ==
    /\ proc[p].pc = "reset_save"
    /\ etl_checkpoint' = save_checkpoint(etl_checkpoint, Job(p), 0, now)
    /\ proc' = [proc EXCEPT ![p].pc = "acquire"]
    /\ UNCHANGED <<now, ticks, runs, overran, FETCH_WORKERS, source_rows, etl_lock,
                   purchase_orders, etl_run_log, last_load>>
    /\ UNCHANGED aux

(* acquire_lock lines 139-153: the transaction begins, SELECT, and the raise *)
AcquireSelect(p) ==
    /\ proc[p].pc = "acquire"
    /\ LET d == LockDecision(RunningRows(etl_lock, Job(p)), now)
       IN  IF d = "raise"
           THEN proc' = [proc EXCEPT ![p].pc = "release",
                                     ![p].status = "failed",
                                     ![p].error_msg = "already running"]
           ELSE proc' = [proc EXCEPT ![p].pc = "lock_write",
                                     ![p].lock_decision = d,
                                     ![p].lock_txn = now]
    /\ UNCHANGED <<now, ticks, runs, overran, FETCH_WORKERS, source_rows, etl_lock,
                   etl_checkpoint, purchase_orders, etl_run_log, last_load>>
    /\ UNCHANGED aux

(* acquire_lock lines 151-160: DELETE of a stale row, the upsert, the commit; *)
(* then parallel_fetch submits its first requests                            *)
AcquireWrite(p) ==
    /\ proc[p].pc = "lock_write"
    /\ LET cleared == IF proc[p].lock_decision = "clear"
                      THEN DeleteLock(etl_lock, Job(p)) ELSE etl_lock
       IN  etl_lock' = InsertLock(cleared, Job(p), proc[p].lock_txn)
    /\ proc' = [proc EXCEPT ![p] = StartFetch(proc[p], FETCH_WORKERS)]
    /\ UNCHANGED <<now, ticks, runs, overran, FETCH_WORKERS, source_rows,
                   etl_checkpoint, purchase_orders, etl_run_log, last_load>>
    /\ UNCHANGED aux

(* lines 272-294 and 513-516: one request of the current pass completes *)
Complete(p) ==
    /\ proc[p].pc = "fetch"
    /\ \E off \in proc[p].pending :
       \E result \in fetch_offset(upstream, off, CHUNK_SIZE, source_rows) :
          LET popped == [proc[p] EXCEPT !.submitted = proc[p].submitted \ {off},
                                        !.pending = proc[p].pending \ {off}]
          IN  IF ~result.ok
              THEN proc' = [proc EXCEPT ![p] =
                              NextPass([popped EXCEPT !.fetch_failed = TRUE])]
              ELSE IF result.items = <<>>
              THEN proc' = [proc EXCEPT ![p] = Resume([popped EXCEPT !.page = result])]
              ELSE proc' = [proc EXCEPT ![p] =
                              [popped EXCEPT !.page = result, !.pc = "load"]]
    /\ UNCHANGED <<now, ticks, runs, overran, FETCH_WORKERS, source_rows, etl_lock,
                   etl_checkpoint, purchase_orders, etl_run_log, last_load>>
    /\ UNCHANGED aux

(* lines 519-522: transform and upsert of the yielded page *)
Load(p) ==
    /\ proc[p].pc = "load"
    /\ LET df  == transform_page_fast(proc[p].page.items)
           res == upsert_dataframe(df, purchase_orders, chunk_size_default)
       IN  /\ purchase_orders' = res.table
           /\ IF res.ok
              THEN proc' = [proc EXCEPT ![p].pc = "save",
                              ![p].total_processed = proc[p].total_processed + res.inserted]
              ELSE proc' = [proc EXCEPT ![p] =
                              [EndFetch(proc[p]) EXCEPT !.status = "failed",
                                                        !.error_msg = "load failed"]]
    /\ UNCHANGED <<now, ticks, runs, overran, FETCH_WORKERS, source_rows, etl_lock,
                   etl_checkpoint, etl_run_log, last_load>>
    /\ UNCHANGED aux

(* lines 525-535: the checkpoint moves to the page's offset + returned, then *)
(* the loop breaks or asks the generator for the next page                  *)
SaveCheckpoint(p) ==
    /\ proc[p].pc = "save"
    /\ LET page == proc[p].page
           r    == [proc[p] EXCEPT !.pages_saved = proc[p].pages_saved + 1,
                                   !.returned_sum = proc[p].returned_sum + page.returned]
       IN  /\ etl_checkpoint' = save_checkpoint(etl_checkpoint, Job(p),
                                                page.offset + page.returned, now)
           /\ proc' = [proc EXCEPT ![p] =
                          IF ~page.has_more THEN EndFetch(r) ELSE Resume(r)]
    /\ UNCHANGED <<now, ticks, runs, overran, FETCH_WORKERS, source_rows, etl_lock,
                   purchase_orders, etl_run_log, last_load>>
    /\ UNCHANGED aux

(* line 543: finally: release_lock *)
Release(p) ==
    /\ proc[p].pc = "release"
    /\ etl_lock' = release_lock(etl_lock, Job(p))
    /\ proc' = [proc EXCEPT ![p].pc = "record"]
    /\ UNCHANGED <<now, ticks, runs, overran, FETCH_WORKERS, source_rows,
                   etl_checkpoint, purchase_orders, etl_run_log, last_load>>
    /\ UNCHANGED aux

(* lines 545-546: record_etl_run *)
Record(p) ==
    /\ proc[p].pc = "record"
    /\ etl_run_log' = Append(etl_run_log,
                             [mode |-> proc[p].MODE,
                              rows_processed |-> proc[p].total_processed,
                              status |-> proc[p].status])
    /\ proc' = [proc EXCEPT ![p] = IdleProc(proc[p].MODE, proc[p].HISTORICAL_TRUNCATE)]
    /\ UNCHANGED <<now, ticks, runs, overran, FETCH_WORKERS, source_rows, etl_lock,
                   etl_checkpoint, purchase_orders, last_load>>
    /\ UNCHANGED aux

(* the process dies between two transactions: its locals are lost, the *)
(* tables keep what was committed                                      *)
Crash(p) ==
    /\ Active(p)
    /\ proc' = [proc EXCEPT ![p] = IdleProc(proc[p].MODE, proc[p].HISTORICAL_TRUNCATE)]
    /\ UNCHANGED <<now, ticks, runs, overran, FETCH_WORKERS, source_rows, etl_lock,
                   etl_checkpoint, purchase_orders, etl_run_log, last_load>>
    /\ UNCHANGED aux

(* time passes *)
Tick ==
    /\ ticks < MaxTicks
    /\ \E d \in TickSteps :
          /\ now' = now + d
          /\ overran' = (overran \/ \E p \in Procs : Active(p))
    /\ ticks' = ticks + 1
    /\ UNCHANGED <<runs, FETCH_WORKERS, source_rows, etl_lock, etl_checkpoint,
                   purchase_orders, etl_run_log, proc, last_load>>
    /\ UNCHANGED aux

Next ==
    \/ \E p \in Procs :
          \/ StartRun(p)
          \/ TruncateSave(p)
          \/ Resolve(p)
          \/ ResetSave(p)
          \/ AcquireSelect(p)
          \/ AcquireWrite(p)
          \/ Complete(p)
          \/ Load(p)
          \/ SaveCheckpoint(p)
          \/ Release(p)
          \/ Record(p)
          \/ Crash(p)
    \/ Tick

(* two schedulers start the same job; one worker, a short source *)
Init ==
    /\ EmptyStore
    /\ ExactUpstream /\ NoInvocation /\ NoEvaluation /\ NoCall /\ NoBatches
    /\ FETCH_WORKERS = 1
    /\ source_rows = 1
    /\ \E mode \in Modes, truncate \in BOOLEAN :
          /\ mode = "daily" => ~truncate
          /\ proc = [p \in Procs |-> IdleProc(mode, truncate)]

Spec == Init /\ [][Next]_vars

(* one process, several workers, a source of several pages *)
InitFetch ==
    /\ EmptyStore
    /\ ExactUpstream /\ NoInvocation /\ NoEvaluation /\ NoCall /\ NoBatches
    /\ FETCH_WORKERS = MaxWorkers
    /\ source_rows \in (MaxSourceRows - 2)..MaxSourceRows
    /\ \E mode \in Modes, truncate \in BOOLEAN :
          /\ mode = "daily" => ~truncate
          /\ proc = [p \in Procs |-> IF p = "p1" THEN IdleProc(mode, truncate)
                                                 ELSE AbsentProc]

SpecFetch == InitFetch /\ [][Next]_vars

----------------------------------------------------------------------------
(* The loader on its own: pages drawn from a small set of orders are run *)
(* through run_etl's lines 519-521, transform then upsert                *)

SampleOrder(po, qty, product, description) ==
    [Order(0) EXCEPT !.purchase_order_id = po,
                     !.items = <<[Order(0).items[1] EXCEPT !.quantity = qty,
                                                           !.product_id = product,
                                                           !.description = description]>>]

SampleOrders ==
    {SampleOrder("A", "1", "P1", "d1"),
     SampleOrder("A", "1", "P1", "d2"),
     SampleOrder("A", "2", "P1", "d1"),
     SampleOrder("B", "1", "P1", "d1"),
     SampleOrder("B", "x", "P1", "d1"),
     SampleOrder(NULL, "1", "P1", "d1"),
     SampleOrder("B", "1", NULL, "d1")}

RECURSIVE SeqsUpTo(_, _)
SeqsUpTo(S, n) ==
    IF n = 0 THEN {<<>>}
    ELSE LET shorter == SeqsUpTo(S, n - 1)
         IN  shorter \cup {Append(q, x) : q \in shorter, x \in S}

SamplePages == SeqsUpTo(SampleOrders, MaxPageOrders)

LoadPage ==
    /\ \E items \in SamplePages :
          LET df  == transform_page_fast(items)
              res == upsert_dataframe(df, purchase_orders, chunk_size_default)
          IN  /\ purchase_orders' = res.table
              /\ last_load' = [df |-> df, before |-> purchase_orders, ok |-> res.ok,
                               written |-> res.written]
    /\ UNCHANGED <<now, ticks, runs, overran, FETCH_WORKERS, source_rows, etl_lock,
                   etl_checkpoint, etl_run_log, proc>>
    /\ UNCHANGED aux

InitLoad ==
    /\ EmptyStore
    /\ ExactUpstream /\ NoInvocation /\ NoEvaluation /\ NoCall /\ NoBatches
    /\ FETCH_WORKERS = 1
    /\ source_rows = 0
    /\ proc = [p \in Procs |-> AbsentProc]

NextLoad == LoadPage

SpecLoad == InitLoad /\ [][NextLoad]_vars

----------------------------------------------------------------------------
(* Claims about the loader *)

LoadedRecs == {last_load.df[i] : i \in 1..Len(last_load.df)}

(* every record of the last load was already stored under its key with the *)
(* same source_hash                                                         *)
AllUnchanged ==
    \A rec \in LoadedRecs :
       \E t \in last_load.before :
          KeyOf(t) = KeyOf(rec) /\ t.source_hash = rec.source_hash

(* C9: loading records whose keys are all stored with the same source_hash *)
(* (as after a first load of the same records) writes nothing: no row is   *)
(* inserted or updated and the target table is what it was.                *)
C9_ReloadWritesNothing ==
    (last_load # NoLoad /\ AllUnchanged)
        => (last_load.written = {} /\ purchase_orders = last_load.before)

(* a reload of stored records with equal hashes, one of them carrying a *)
(* description other than the stored one                                *)
C9_Witness ==
    /\ last_load # NoLoad
    /\ last_load.ok
    /\ Len(last_load.df) = 2
    /\ AllUnchanged
    /\ \E rec \in LoadedRecs : rec \notin last_load.before

AllStored ==
    \A rec \in LoadedRecs : Stored(last_load.before, KeyOf(rec)) # {}

ChangedIn(t) ==
    {rec \in LoadedRecs : KeyOf(rec) = KeyOf(t) /\ rec.source_hash # t.source_hash}

(* C10: a reload of stored records replaces every non-key column of exactly *)
(* the rows whose incoming source_hash differs from the stored one; every   *)
(* other row, reloaded with an equal hash or not reloaded, stays as it was. *)
C10_ChangedRowsOnly ==
    (last_load # NoLoad /\ last_load.ok /\ AllStored)
        => /\ \A t \in last_load.before :
                 IF ChangedIn(t) = {}
                 THEN t \in purchase_orders
                 ELSE Stored(purchase_orders, KeyOf(t)) = ChangedIn(t)
           /\ Cardinality(purchase_orders) = Cardinality(last_load.before)
           /\ last_load.written = {KeyOf(t) : t \in {u \in last_load.before : ChangedIn(u) # {}}}

(* a reload of two stored rows in which one hash changed (with its quantity *)
(* and description) and the other did not                                   *)
C10_Witness ==
    /\ last_load # NoLoad
    /\ last_load.ok
    /\ AllStored
    /\ Cardinality(last_load.written) = 1
    /\ \E t \in last_load.before : ChangedIn(t) = {} /\ \E rec \in LoadedRecs :
          KeyOf(rec) = KeyOf(t)
    /\ \E t \in last_load.before, rec \in LoadedRecs :
          rec \in ChangedIn(t) /\ rec.description # t.description

----------------------------------------------------------------------------
(* Claims about the Run Lock *)

(* the process has passed acquire_lock and is in the fetch/load loop *)
InLoop(p) == proc[p].pc \in {"fetch", "load", "save"}

(* the process takes a step of its own that is not its death *)
Steps(p, at) ==
    /\ proc[p].pc = at
    /\ proc'[p].pc \notin {at, "idle"}

LockRow(job, t) == [job_name |-> job, started_at |-> t, status |-> "running"]

(* C1: while no run has lasted beyond the staleness threshold (here: no   *)
(* time at all has passed during a run), two runs of the same job are     *)
(* never both in the fetch/load loop.                                     *)
C1_OneRunInLoop ==
    ~overran =>
        \A p, q \in Procs : (p # q /\ Job(p) = Job(q)) => ~(InLoop(p) /\ InLoop(q))

(* C2: acquire_lock for a job with a 'running' lock row no older than the *)
(* staleness threshold raises 'already running' and leaves etl_lock as it *)
(* was.                                                                   *)
C2_ContentionLeavesLock ==
    [][\A p \in Procs :
          (/\ Steps(p, "acquire")
           /\ \E row \in RunningRows(etl_lock, Job(p)) :
                 now - row.started_at <= StaleMinutes)
          => (/\ proc'[p].pc = "release"
              /\ proc'[p].status = "failed"
              /\ proc'[p].error_msg = "already running"
              /\ etl_lock' = etl_lock)]_vars

(* a run has been refused while the holder's row, aged exactly the *)
(* threshold, is still there                                       *)
C2_Witness ==
    \E p \in Procs :
       /\ proc[p].pc = "release"
       /\ proc[p].error_msg = "already running"
       /\ \E row \in RunningRows(etl_lock, Job(p)) : now - row.started_at = StaleMinutes

(* C3: acquire_lock for a job whose lock row is older than the staleness  *)
(* threshold does not raise, and once it has written, the job has exactly *)
(* one lock row, 'running', with started_at the time of this acquisition. *)
C3_StaleLockReclaimed ==
    [][\A p \in Procs :
          /\ (/\ Steps(p, "acquire")
               /\ \E row \in RunningRows(etl_lock, Job(p)) :
                     now - row.started_at > StaleMinutes)
              => (/\ proc'[p].pc = "lock_write"
                  /\ proc'[p].lock_decision = "clear"
                  /\ proc'[p].lock_txn = now)
          /\ (Steps(p, "lock_write") /\ proc[p].lock_decision = "clear")
              => (/\ proc'[p].pc = "fetch"
                  /\ JobRows(etl_lock', Job(p)) = {LockRow(Job(p), proc[p].lock_txn)})]_vars

(* a run is fetching after it reclaimed a stale lock, and the job's only *)
(* lock row is the one it wrote                                          *)
C3_Witness ==
    \E p \in Procs :
       /\ proc[p].pc = "fetch"
       /\ proc[p].lock_decision = "clear"
       /\ now > StaleMinutes
       /\ JobRows(etl_lock, Job(p)) = {LockRow(Job(p), now)}

----------------------------------------------------------------------------
(* Claims about the checkpoint during a run *)

LastOffset(p) == etl_checkpoint[Job(p)].last_offset

(* C4: once a run has loaded and checkpointed pages (here: with no fetch *)
(* failed), the persisted last_offset is the run's starting offset plus *)
(* the returned counts of those pages.                                  *)
C4_CheckpointIsStartPlusReturned ==
    \A p \in Procs :
       (Active(p) /\ proc[p].pages_saved > 0 /\ ~proc[p].fetch_failed)
           => LastOffset(p) = proc[p].offset + proc[p].returned_sum

(* C5: from one save of a run to its next, last_offset never decreases. *)
C5_CheckpointNeverDecreases ==
    [][\A p \in Procs :
          (Steps(p, "save") /\ proc[p].pages_saved > 0)
          => etl_checkpoint'[Job(p)].last_offset >= LastOffset(p)]_vars

(* the offsets of the pages a run starting at `start` asks for *)
PageOffsets(start) == {start + k * CHUNK_SIZE : k \in 0..MaxSourceRows}

(* every order of the source page at `off` is in the target table *)
PageLoaded(off) ==
    \A i \in off..(Min(off + CHUNK_SIZE, source_rows) - 1) :
       \E t \in purchase_orders : t.purchase_order_id = ToString(i)

(* C6: in a run without a failed fetch, every page from the run's starting *)
(* offset up to the persisted last_offset has been loaded.                 *)
C6_CheckpointedPagesLoaded ==
    \A p \in Procs :
       (Active(p) /\ proc[p].pages_saved > 0 /\ ~proc[p].fetch_failed)
           => \A off \in PageOffsets(proc[p].offset) :
                 off < LastOffset(p) => PageLoaded(off)

----------------------------------------------------------------------------
(* Claims about the starting offset *)

Daily(p) == proc[p].MODE = "daily"

HasCheckpoint(p) == etl_checkpoint[Job(p)] # NoRow

LastRunDate(p) == DateOf(etl_checkpoint[Job(p)].last_run)

(* the step in which a run's first page requests are submitted *)
FirstRequests(p) == ~InLoop(p) /\ proc'[p].submitted # {}

(* C7: a daily run that finds last_run dated before today starts from     *)
(* offset 0, and the checkpoint row holds last_offset 0 before the run's  *)
(* first page request is issued.                                          *)
C7_DailyReset ==
    [][\A p \in Procs :
          /\ (/\ Steps(p, "resolve")
               /\ Daily(p)
               /\ HasCheckpoint(p)
               /\ LastRunDate(p) < DateOf(now))
              => (/\ proc'[p].pc = "reset_save"
                  /\ proc'[p].offset = 0
                  /\ proc'[p].reset_seen
                  /\ proc'[p].submitted = {})
          /\ Steps(p, "reset_save")
              => (/\ proc'[p].pc = "acquire"
                  /\ proc'[p].submitted = {}
                  /\ etl_checkpoint'[Job(p)] = [last_offset |-> 0, last_run |-> now])
          /\ (FirstRequests(p) /\ proc[p].reset_seen)
              => (/\ LastOffset(p) = 0
                  /\ proc'[p].submitted = {k * CHUNK_SIZE : k \in 0..(FETCH_WORKERS - 1)})]_vars

(* a daily run has reset a checkpoint that stood above 0 and is about to *)
(* take the lock                                                         *)
C7_Witness ==
    \E p \in Procs :
       /\ Daily(p)
       /\ proc[p].pc = "acquire"
       /\ proc[p].reset_seen
       /\ proc[p].offset = 0
       /\ etl_checkpoint[Job(p)] = [last_offset |-> 0, last_run |-> now]
       /\ purchase_orders # {}

(* C8: a daily run that finds last_run dated today starts from the stored *)
(* last_offset, a daily run that finds no checkpoint row starts from 0,   *)
(* and neither writes the checkpoint before its first page request.       *)
C8_DailyResume ==
    [][\A p \in Procs :
          /\ (Steps(p, "resolve") /\ Daily(p) /\ HasCheckpoint(p)
                  /\ LastRunDate(p) = DateOf(now))
              => (/\ proc'[p].pc = "acquire"
                  /\ proc'[p].offset = LastOffset(p)
                  /\ etl_checkpoint' = etl_checkpoint)
          /\ (Steps(p, "resolve") /\ Daily(p) /\ ~HasCheckpoint(p))
              => (/\ proc'[p].pc = "acquire"
                  /\ proc'[p].offset = 0
                  /\ etl_checkpoint' = etl_checkpoint)
          /\ (Daily(p) /\ (Steps(p, "acquire") \/ Steps(p, "lock_write")))
              => etl_checkpoint' = etl_checkpoint
          /\ (FirstRequests(p) /\ Daily(p) /\ ~proc[p].reset_seen)
              => (/\ proc[p].pc = "lock_write"
                  /\ proc[p].offset \in proc'[p].submitted)]_vars

(* a daily run resumes today's run from a stored offset above 0 *)
C8_Witness ==
    \E p \in Procs :
       /\ Daily(p)
       /\ proc[p].pc = "fetch"
       /\ ~proc[p].reset_seen
       /\ proc[p].offset > 0
       /\ proc[p].pages_saved = 0
       /\ etl_checkpoint[Job(p)] = [last_offset |-> proc[p].offset, last_run |-> now]

----------------------------------------------------------------------------
(* Backfill batches (src/extract/common/batch_manager.py and            *)
(* src/reset_failed_batches.py).  A row of app_core.etl_batches is       *)
(* [batch_id, start_date, end_date, status, error_message]; a row lock   *)
(* taken by SELECT .. FOR UPDATE is held until the transaction commits.  *)

Callers == {"w1", "w2"}

Date(y, m, d) == [y |-> y, m |-> m, d |-> d]

BACKFILL_START == Date(2024, 1, 1)
BACKFILL_END == Date(2024, 4, 1)

DateBefore(a, b) ==
    \/ a.y < b.y
    \/ a.y = b.y /\ a.m < b.m
    \/ a.y = b.y /\ a.m = b.m /\ a.d < b.d

IsLeap(y) == (y % 4 = 0 /\ y % 100 # 0) \/ y % 400 = 0

DaysIn(y, m) ==
    IF m = 2 THEN (IF IsLeap(y) THEN 29 ELSE 28)
    ELSE IF m \in {4, 6, 9, 11} THEN 30 ELSE 31

(* current + relativedelta(months=1) *)
AddMonth(a) ==
    LET y == IF a.m = 12 THEN a.y + 1 ELSE a.y
        m == IF a.m = 12 THEN 1 ELSE a.m + 1
    IN  Date(y, m, Min(a.d, DaysIn(y, m)))

(* initialize_batches lines 54-61: the (start_date, end_date) tuples *)
RECURSIVE MonthlySlices(_, _)
MonthlySlices(current, end) ==
    IF DateBefore(current, end)
    THEN <<<<current, AddMonth(current)>>>> \o MonthlySlices(AddMonth(current), end)
    ELSE <<>>

BatchIds == DOMAIN etl_batches

(* INSERT .. VALUES (start, end, 'PENDING') ON CONFLICT DO NOTHING, under *)
(* the unique index idx_batch_dates on (start_date, end_date)            *)
InsertBatchNoIndex(table, slice) ==
    Append(table, [batch_id |-> Len(table) + 1, start_date |-> slice[1],
                   end_date |-> slice[2], status |-> "PENDING",
                   error_message |-> NULL])

InsertBatch(table, slice) ==
    IF \E i \in DOMAIN table :
          table[i].start_date = slice[1] /\ table[i].end_date = slice[2]
    THEN table
    ELSE Append(table, [batch_id |-> Len(table) + 1, start_date |-> slice[1],
                        end_date |-> slice[2], status |-> "PENDING",
                        error_message |-> NULL])

(* cur.executemany(sql, batch_rows) *)
RECURSIVE InsertBatches(_, _)
InsertBatches(table, slices) ==
    IF slices = <<>> THEN table
    ELSE InsertBatches(InsertBatch(table, Head(slices)), Tail(slices))

LockedByOther(locks, b, c) == \E l \in locks : l[1] = b /\ l[2] # c

(* get_next_batch lines 82-89: the rows the SELECT may lock *)
ClaimableNoLock(table, locks, c) ==
    {b \in DOMAIN table : table[b].status = "PENDING"}

ClaimableOrFailed(table, locks, c) ==
    {b \in DOMAIN table : /\ table[b].status \in {"PENDING", "FAILED"}
                          /\ ~LockedByOther(locks, b, c)}

Claimable(table, locks, c) ==
    {b \in DOMAIN table : /\ table[b].status = "PENDING"
                          /\ ~LockedByOther(locks, b, c)}

(* ORDER BY start_date ASC LIMIT 1 *)
Oldest(table, ids) ==
    CHOOSE b \in ids : \A o \in ids : ~DateBefore(table[o].start_date, table[b].start_date)

IdleCaller == [pc |-> "idle", batch |-> 0, got |-> NULL]


notBatch == <<etlVars, upstream, runVars, last_eval, call>>

(* initialize_batches lines 39-50: the table exists; the row count   *)
InitCount(c) ==
    /\ caller[c].pc = "idle"
    /\ IF Len(etl_batches) > 0
       THEN caller' = [caller EXCEPT ![c] = [IdleCaller EXCEPT !.got = "skipped"]]
       ELSE caller' = [caller EXCEPT ![c] = [IdleCaller EXCEPT !.pc = "init_insert"]]
    /\ UNCHANGED <<etl_batches, row_locks, handed_out>>
    /\ UNCHANGED notBatch

(* initialize_batches lines 54-70: the monthly slices are inserted and committed *)
InitInsert(c) ==
    /\ caller[c].pc = "init_insert"
    /\ etl_batches' = InsertBatches(etl_batches,
                                    MonthlySlices(BACKFILL_START, BACKFILL_END))
    /\ handed_out' = handed_out \o
                        [i \in 1..(Len(etl_batches') - Len(etl_batches)) |-> 0]
    /\ caller' = [caller EXCEPT ![c] = [IdleCaller EXCEPT !.got = "created"]]
    /\ UNCHANGED row_locks
    /\ UNCHANGED notBatch

(* get_next_batch lines 82-92 and 103: the SELECT locks the oldest claimable *)
(* row, or finds none and the call returns None                              *)
ClaimSelect(c) ==
    /\ caller[c].pc = "idle"
    /\ LET ids == Claimable(etl_batches, row_locks, c)
       IN  IF ids = {}
           THEN /\ caller' = [caller EXCEPT ![c] = [IdleCaller EXCEPT !.got = "None"]]
                /\ row_locks' = row_locks
           ELSE LET b == Oldest(etl_batches, ids)
                IN  /\ caller' = [caller EXCEPT ![c] =
                                     [IdleCaller EXCEPT !.pc = "claim_update", !.batch = b]]
                    /\ row_locks' = row_locks \cup {<<b, c>>}
    /\ UNCHANGED <<etl_batches, handed_out>>
    /\ UNCHANGED notBatch

(* get_next_batch lines 93-101: UPDATE to IN_PROGRESS, commit, return the batch *)
ClaimUpdate(c) ==
    /\ caller[c].pc = "claim_update"
    /\ LET b == caller[c].batch
       IN  /\ etl_batches' = [etl_batches EXCEPT ![b].status = "IN_PROGRESS"]
           /\ row_locks' = {l \in row_locks : l[2] # c}
           /\ handed_out' = [handed_out EXCEPT ![b] = handed_out[b] + 1]
           /\ caller' = [caller EXCEPT ![c] =
                            [pc |-> "working", batch |-> b, got |-> "batch"]]
    /\ UNCHANGED notBatch

(* get_next_batch line 105: the connection is closed on an exception before *)
(* the commit; the transaction rolls back and its row lock is gone          *)
ClaimAbort(c) ==
    /\ caller[c].pc = "claim_update"
    /\ row_locks' = {l \in row_locks : l[2] # c}
    /\ caller' = [caller EXCEPT ![c] = IdleCaller]
    /\ UNCHANGED <<etl_batches, handed_out>>
    /\ UNCHANGED notBatch

(* mark_batch_complete(batch_id, ..) by the process that works on the batch *)
MarkComplete(c) ==
    /\ caller[c].pc = "working"
    /\ etl_batches' = [etl_batches EXCEPT ![caller[c].batch].status = "COMPLETED"]
    /\ caller' = [caller EXCEPT ![c] = IdleCaller]
    /\ UNCHANGED <<row_locks, handed_out>>
    /\ UNCHANGED notBatch

(* mark_batch_failed(batch_id, error_msg) by the process that works on the batch *)
MarkFailed(c) ==
    /\ caller[c].pc = "working"
    /\ etl_batches' = [etl_batches EXCEPT ![caller[c].batch].status = "FAILED",
                                          ![caller[c].batch].error_message = "error"]
    /\ caller' = [caller EXCEPT ![c] = IdleCaller]
    /\ UNCHANGED <<row_locks, handed_out>>
    /\ UNCHANGED notBatch

(* reset_batches lines 15-19: the count of FAILED batches *)
ResetCount(c) ==
    /\ caller[c].pc = "idle"
    /\ IF \E b \in BatchIds : etl_batches[b].status = "FAILED"
       THEN caller' = [caller EXCEPT ![c] = [IdleCaller EXCEPT !.pc = "reset_update"]]
       ELSE caller' = [caller EXCEPT ![c] = [IdleCaller EXCEPT !.got = "no failed"]]
    /\ UNCHANGED <<etl_batches, row_locks, handed_out>>
    /\ UNCHANGED notBatch

(* reset_batches lines 21-22: UPDATE .. SET status = 'PENDING' WHERE status = 'FAILED' *)
ResetUpdate(c) ==
    /\ caller[c].pc = "reset_update"
    /\ etl_batches' = [b \in BatchIds |->
                          IF etl_batches[b].status = "FAILED"
                          THEN [etl_batches[b] EXCEPT !.status = "PENDING"]
                          ELSE etl_batches[b]]
    /\ handed_out' = [b \in BatchIds |->
                         IF etl_batches[b].status = "FAILED" THEN 0 ELSE handed_out[b]]
    /\ caller' = [caller EXCEPT ![c] = [IdleCaller EXCEPT !.got = "reset"]]
    /\ UNCHANGED row_locks
    /\ UNCHANGED notBatch

NextBatch ==
    \E c \in Callers :
       \/ InitCount(c)
       \/ InitInsert(c)
       \/ ClaimSelect(c)
       \/ ClaimUpdate(c)
       \/ ClaimAbort(c)
       \/ MarkComplete(c)
       \/ MarkFailed(c)
       \/ ResetCount(c)
       \/ ResetUpdate(c)

(* the batch table exists and is empty; no orchestrator runs *)
InitBatch ==
    /\ EmptyStore
    /\ ExactUpstream /\ NoInvocation /\ NoEvaluation /\ NoCall
    /\ FETCH_WORKERS = 1
    /\ source_rows = 0
    /\ proc = [p \in Procs |-> AbsentProc]
    /\ etl_batches = <<>>
    /\ row_locks = {}
    /\ caller = [c \in Callers |-> IdleCaller]
    /\ handed_out = <<>>

SpecBatch == InitBatch /\ [][NextBatch]_vars

----------------------------------------------------------------------------
(* Claims about the backfill batches *)

(* the step in which caller c moves from one position to another *)
Moves(c, from, to) == caller[c].pc = from /\ caller'[c].pc = to

PendingFor(c) ==
    {b \in BatchIds : etl_batches[b].status = "PENDING" /\ ~LockedByOther(row_locks, b, c)}

(* C11: no batch is returned by get_next_batch twice without a reset to    *)
(* PENDING in between; a call locks a PENDING batch that no other claimant *)
(* has locked and that has the smallest start_date among those, marks it   *)
(* IN_PROGRESS and returns it; it returns None only when there is no such  *)
(* batch.                                                                  *)
C11_NoBatchTwice ==
    /\ [](\A b \in BatchIds : handed_out[b] <= 1)
    /\ [][\A c \in Callers :
             /\ Moves(c, "idle", "claim_update")
                 => (/\ caller'[c].batch \in PendingFor(c)
                     /\ \A o \in PendingFor(c) :
                           ~DateBefore(etl_batches[o].start_date,
                                       etl_batches[caller'[c].batch].start_date))
             /\ Moves(c, "claim_update", "working")
                 => (/\ caller'[c].got = "batch"
                     /\ caller'[c].batch = caller[c].batch
                     /\ etl_batches[caller[c].batch].status = "PENDING"
                     /\ etl_batches'[caller[c].batch].status = "IN_PROGRESS")
             /\ (caller[c].pc = "idle" /\ caller'[c].got = "None"
                     /\ caller'[c] # caller[c])
                 => PendingFor(c) = {}]_vars

(* two claims are in flight at once, on different batches *)
C11_Witness ==
    \E c, d \in Callers :
       /\ caller[c].pc = "claim_update"
       /\ caller[d].pc = "claim_update"
       /\ caller[c].batch # caller[d].batch

PendingBatch(id, start, end) ==
    [batch_id |-> id, start_date |-> start, end_date |-> end, status |-> "PENDING",
     error_message |-> NULL]

(* C12: initialize_batches on an empty table leaves exactly the three      *)
(* PENDING batches January, February, March 2024, each ending where the    *)
(* next starts; a call that finds the table non-empty, at its count or at  *)
(* its insert (another call got there first), leaves the table as it was.  *)
C12_InitializeOnce ==
    [][\A c \in Callers :
          /\ Moves(c, "idle", "init_insert")
              => (etl_batches = <<>> /\ etl_batches' = etl_batches)
          /\ Moves(c, "init_insert", "idle")
              => IF etl_batches = <<>>
                 THEN etl_batches' =
                        <<PendingBatch(1, Date(2024, 1, 1), Date(2024, 2, 1)),
                          PendingBatch(2, Date(2024, 2, 1), Date(2024, 3, 1)),
                          PendingBatch(3, Date(2024, 3, 1), Date(2024, 4, 1))>>
                 ELSE etl_batches' = etl_batches
          /\ (caller[c].pc = "idle" /\ caller'[c].got = "skipped"
                  /\ caller'[c] # caller[c])
              => (Len(etl_batches) > 0 /\ etl_batches' = etl_batches)]_vars

(* two concurrent calls both found the table empty and both inserted *)
C12_Witness ==
    /\ Len(etl_batches) = 3
    /\ \A c \in Callers : caller[c].got = "created"

(* C19: get_next_batch never locks or returns a batch whose status is      *)
(* FAILED; a FAILED batch changes status only in reset_batches' UPDATE,    *)
(* which makes every FAILED batch PENDING.                                 *)
C19_FailedNotClaimed ==
    [][/\ \A c \in Callers :
             /\ Moves(c, "idle", "claim_update")
                 => etl_batches[caller'[c].batch].status # "FAILED"
             /\ Moves(c, "claim_update", "working")
                 => etl_batches[caller[c].batch].status # "FAILED"
             /\ Moves(c, "reset_update", "idle")
                 => \A b \in BatchIds :
                       etl_batches[b].status = "FAILED"
                           => etl_batches'[b].status = "PENDING"
       /\ \A b \in BatchIds :
             (etl_batches[b].status = "FAILED" /\ etl_batches'[b].status # "FAILED")
                 => (/\ etl_batches'[b].status = "PENDING"
                     /\ \E c \in Callers : Moves(c, "reset_update", "idle"))]_vars

(* a batch that failed and was reset has been returned again *)
C19_Witness ==
    \E c \in Callers :
       /\ caller[c].pc = "working"
       /\ etl_batches[caller[c].batch].status = "IN_PROGRESS"
       /\ etl_batches[caller[c].batch].error_message # NULL

----------------------------------------------------------------------------
(* Health Evaluator (src/src/monitoring/monitors.py) *)

MAX_RUNTIME_SECONDS == 900
BASELINE_WINDOW == 2
MIN_DAILY_EXPECTED_ROWS == 1

MaxLogLen == 3

RECURSIVE SumRows(_)
SumRows(rows) ==
    IF rows = <<>> THEN 0 ELSE Head(rows).rows_processed + SumRows(Tail(rows))

IsSuccessOf(mode, run) == run.status = "success" /\ run.mode = mode

(* fetch_recent_success_stats: WHERE status = 'success' AND mode = :mode *)
(* ORDER BY run_id DESC LIMIT :lim                                       *)
fetch_recent_success_stats(log, mode, window) ==
    LET IsOk(run) == IsSuccessOf(mode, run)
        ok == SelectSeq(log, IsOk)
        n  == Min(window, Len(ok))
    IN  [i \in 1..n |-> ok[Len(ok) - i + 1]]

(* lines 57-61: the mean as the fraction sum / n; 0 when there is no baseline *)
avg_rows(baseline) ==
    IF baseline = <<>> THEN [sum |-> 0, n |-> 1]
    ELSE [sum |-> SumRows(baseline), n |-> Len(baseline)]

(* line 52 *)
RuntimeIssue(runtime_seconds) == runtime_seconds > MAX_RUNTIME_SECONDS

(* line 64: rows_processed == 0 and avg_rows >= min_daily_expected *)
DailyIssueStrict(mode, rows_processed, avg) ==
    mode = "daily" /\ rows_processed = 0 /\ avg.sum > MIN_DAILY_EXPECTED_ROWS * avg.n

DailyIssue(mode, rows_processed, avg) ==
    mode = "daily" /\ rows_processed = 0 /\ avg.sum >= MIN_DAILY_EXPECTED_ROWS * avg.n

(* line 69: avg_rows > 0 and rows_processed < 0.25 * avg_rows *)
HistoricalIssue(mode, rows_processed, avg) ==
    mode = "historical" /\ avg.sum > 0 /\ 4 * rows_processed * avg.n < avg.sum

evaluate_run(log, mode, rows_processed, runtime_seconds) ==
    LET avg    == avg_rows(fetch_recent_success_stats(log, mode, BASELINE_WINDOW))
        issues == (IF RuntimeIssue(runtime_seconds) THEN <<"runtime">> ELSE <<>>)
                  \o (IF DailyIssue(mode, rows_processed, avg)
                      THEN <<"daily rows dropped to 0">> ELSE <<>>)
                  \o (IF HistoricalIssue(mode, rows_processed, avg)
                      THEN <<"historical rows small">> ELSE <<>>)
    IN  [ok |-> issues = <<>>, issues |-> issues]

(* the evaluator on its own: any run log, any run to evaluate *)
SampleRuns ==
    {[mode |-> m, rows_processed |-> n, status |-> "success"] :
         m \in Modes, n \in {0, 1, 500}}
    \cup {[mode |-> m, rows_processed |-> 500, status |-> "failed"] : m \in Modes}

RowCounts == {0, 1, 100, 500}

Runtimes == {10, MAX_RUNTIME_SECONDS, MAX_RUNTIME_SECONDS + 1}

Evaluate ==
    /\ \E mode \in Modes, rows \in RowCounts, runtime \in Runtimes :
          LET res == evaluate_run(etl_run_log, mode, rows, runtime)
          IN  last_eval' = [mode |-> mode, rows_processed |-> rows,
                            runtime_seconds |-> runtime,
                            ok |-> res.ok, issues |-> res.issues]
    /\ UNCHANGED <<etlVars, upstream, runVars, call, batchVars>>

InitEval ==
    /\ now = 0
    /\ ticks = 0
    /\ runs = 0
    /\ overran = FALSE
    /\ etl_lock = {}
    /\ etl_checkpoint = [m \in Modes |-> NoRow]
    /\ purchase_orders = {}
    /\ etl_run_log \in SeqsUpTo(SampleRuns, MaxLogLen)
    /\ last_load = NoLoad
    /\ ExactUpstream /\ NoInvocation /\ NoEvaluation /\ NoCall /\ NoBatches
    /\ FETCH_WORKERS = 1
    /\ source_rows = 0
    /\ proc = [p \in Procs |-> AbsentProc]

NextEval == Evaluate

SpecEval == InitEval /\ [][NextEval]_vars

----------------------------------------------------------------------------
(* Claims about the Health Evaluator *)

(* the positions in the log of the last BASELINE_WINDOW successful runs of a mode *)
BaselineAt(mode) ==
    {i \in DOMAIN etl_run_log :
        /\ IsSuccessOf(mode, etl_run_log[i])
        /\ Cardinality({j \in DOMAIN etl_run_log :
                           j > i /\ IsSuccessOf(mode, etl_run_log[j])}) < BASELINE_WINDOW}

RECURSIVE RowsAt(_)
RowsAt(S) ==
    IF S = {} THEN 0
    ELSE LET i == CHOOSE x \in S : TRUE
         IN  etl_run_log[i].rows_processed + RowsAt(S \ {i})

(* mean of the baseline >= k, > 0, and 4 * rows < mean, without division *)
Unhealthy(e) ==
    LET base == BaselineAt(e.mode)
        n    == Cardinality(base)
        sum  == RowsAt(base)
    IN  \/ e.runtime_seconds > MAX_RUNTIME_SECONDS
        \/ /\ e.mode = "daily"
           /\ e.rows_processed = 0
           /\ n > 0
           /\ sum >= MIN_DAILY_EXPECTED_ROWS * n
        \/ /\ e.mode = "historical"
           /\ n > 0
           /\ sum > 0
           /\ 4 * e.rows_processed * n < sum

----------------------------------------------------------------------------
(* One orchestrator seen from outside: run_etl's statements before the try *)
(* as one step, its finally block as one step, and a database error in a   *)
(* statement that no except clause covers                                  *)

SecondsPerMinute == 60

(* line 552 *)
ShouldEmailOnFailure(status, ok) == status # "success"

ShouldEmail(status, ok) == status # "success" \/ ~ok

(* lines 183-188 *)
optional_truncate_for_historical(r, table, ckpt, t) ==
    IF r.MODE = "historical" /\ r.HISTORICAL_TRUNCATE
    THEN [table |-> {}, ckpt |-> save_checkpoint(ckpt, JOB_NAME(r.MODE), 0, t)]
    ELSE [table |-> table, ckpt |-> ckpt]

(* lines 467-506: tables ensured, optional truncate, start_time, the starting *)
(* offset and the daily reset                                                 *)
Invoke(p) ==
    /\ proc[p].pc = "idle"
    /\ runs < MaxRuns
    /\ runs' = runs + 1
    /\ LET r     == proc[p]
           trunc == optional_truncate_for_historical(r, purchase_orders,
                                                     etl_checkpoint, now)
           res   == ResolveOffset(r.MODE, get_checkpoint(trunc.ckpt, Job(p)),
                                  DateOf(now))
       IN  /\ purchase_orders' = trunc.table
           /\ etl_checkpoint' = IF res.reset
                                THEN save_checkpoint(trunc.ckpt, Job(p), 0, now)
                                ELSE trunc.ckpt
           /\ proc' = [proc EXCEPT ![p] =
                          [IdleProc(r.MODE, r.HISTORICAL_TRUNCATE) EXCEPT
                              !.pc = "acquire",
                              !.offset = res.offset,
                              !.reset_seen = res.reset]]
    /\ start_time' = [start_time EXCEPT ![p] = now]
    /\ UNCHANGED <<now, ticks, overran, FETCH_WORKERS, source_rows, etl_lock,
                   etl_run_log, last_load>>
    /\ UNCHANGED <<upstream, ended, alerts, last_eval, call, batchVars>>

(* lines 468-497 are outside the try: a database error in                  *)
(* ensure_checkpoint_table (nothing done yet) or in get_checkpoint (the    *)
(* truncate is done) leaves run_etl as an exception                        *)
InvokeRaises(p) ==
    /\ proc[p].pc = "idle"
    /\ runs < MaxRuns
    /\ runs' = runs + 1
    /\ \E failing \in {"ensure_checkpoint_table", "get_checkpoint"} :
          LET trunc == optional_truncate_for_historical(proc[p], purchase_orders,
                                                        etl_checkpoint, now)
          IN  IF failing = "get_checkpoint"
              THEN purchase_orders' = trunc.table /\ etl_checkpoint' = trunc.ckpt
              ELSE UNCHANGED <<purchase_orders, etl_checkpoint>>
    /\ ended' = ended + 1
    /\ UNCHANGED <<now, ticks, overran, FETCH_WORKERS, source_rows, etl_lock,
                   etl_run_log, proc, last_load>>
    /\ UNCHANGED <<upstream, start_time, alerts, last_eval, call, batchVars>>

(* lines 542-573: release_lock, record_etl_run, evaluate_run, send_email *)
Finally(p) ==
    /\ proc[p].pc = "release"
    /\ LET r        == proc[p]
           log      == Append(etl_run_log,
                              [mode |-> r.MODE,
                               rows_processed |-> r.total_processed,
                               status |-> r.status])
           duration == (now - start_time[p]) * SecondsPerMinute
           res      == evaluate_run(log, r.MODE, r.total_processed, duration)
       IN  /\ etl_lock' = release_lock(etl_lock, Job(p))
           /\ etl_run_log' = log
           /\ last_eval' = [mode |-> r.MODE, rows_processed |-> r.total_processed,
                            runtime_seconds |-> duration,
                            ok |-> res.ok, issues |-> res.issues]
           /\ alerts' = IF ShouldEmail(r.status, res.ok)
                        THEN Append(alerts, [status |-> r.status,
                                             rows_processed |-> r.total_processed,
                                             error |-> r.error_msg,
                                             issues |-> res.issues])
                        ELSE alerts
           /\ proc' = [proc EXCEPT ![p] = IdleProc(r.MODE, r.HISTORICAL_TRUNCATE)]
    /\ start_time' = [start_time EXCEPT ![p] = NoTime]
    /\ ended' = ended + 1
    /\ UNCHANGED <<now, ticks, runs, overran, FETCH_WORKERS, source_rows,
                   etl_checkpoint, purchase_orders, last_load>>
    /\ UNCHANGED <<upstream, call, batchVars>>

(* line 543 is the first statement of the finally block: a database error *)
(* in release_lock leaves run_etl before record_etl_run                   *)
FinallyRaises(p) ==
    /\ proc[p].pc = "release"
    /\ proc' = [proc EXCEPT ![p] = IdleProc(proc[p].MODE, proc[p].HISTORICAL_TRUNCATE)]
    /\ start_time' = [start_time EXCEPT ![p] = NoTime]
    /\ ended' = ended + 1
    /\ UNCHANGED <<now, ticks, runs, overran, FETCH_WORKERS, source_rows, etl_lock,
                   etl_checkpoint, purchase_orders, etl_run_log, last_load>>
    /\ UNCHANGED <<upstream, alerts, last_eval, call, batchVars>>

NextRun ==
    \/ \E p \in Procs :
          \/ Invoke(p)
          \/ InvokeRaises(p)
          \/ AcquireSelect(p)
          \/ AcquireWrite(p)
          \/ Complete(p)
          \/ Load(p)
          \/ SaveCheckpoint(p)
          \/ Finally(p)
          \/ FinallyRaises(p)
    \/ Tick

(* one process, one worker, a source of at most one page *)
InitRun ==
    /\ EmptyStore
    /\ ExactUpstream /\ NoInvocation /\ NoEvaluation /\ NoCall /\ NoBatches
    /\ FETCH_WORKERS = 1
    /\ source_rows \in 0..CHUNK_SIZE
    /\ \E mode \in Modes, truncate \in BOOLEAN :
          /\ mode = "daily" => ~truncate
          /\ proc = [p \in Procs |-> IF p = "p1" THEN IdleProc(mode, truncate)
                                                 ELSE AbsentProc]

SpecRun == InitRun /\ [][NextRun]_vars

----------------------------------------------------------------------------
(* Claims about the outcome of a run *)

Quiescent == \A p \in Procs : ~Active(p)

(* C14: when no invocation is under way, the run log holds exactly one *)
(* entry for each invocation that has returned or raised.              *)
C14_OneEntryPerInvocation == Quiescent => Len(etl_run_log) = ended

(* the step that ends an invocation through its finally block *)
Finishes(p) == proc[p].pc = "release" /\ Len(etl_run_log') = Len(etl_run_log) + 1

Records(p) == proc[p].pc = "record" /\ Len(etl_run_log') = Len(etl_run_log) + 1

(* C15: a run that reached the fetch loop, had page requests fail and got *)
(* no page at all out of the fetcher is recorded with status 'failed'.    *)
C15_NoPageRunFails ==
    [][\A p \in Procs :
          (Records(p) /\ proc[p].fetch_failed /\ proc[p].page_counter = 0)
              => etl_run_log'[Len(etl_run_log')].status = "failed"]_vars

----------------------------------------------------------------------------
(* A source that does not paginate as agreed *)

InitUpstream ==
    /\ EmptyStore
    /\ NoInvocation /\ NoEvaluation /\ NoCall /\ NoBatches
    /\ upstream \in Behaviours \ {"exact"}
    /\ FETCH_WORKERS = MaxWorkers
    /\ source_rows = MaxSourceRows
    /\ \E truncate \in BOOLEAN :
          proc = [p \in Procs |-> IF p = "p1" THEN IdleProc("historical", truncate)
                                              ELSE AbsentProc]

(* historical runs to their end, one after the other, in a single day *)
NextUpstream ==
    \E p \in Procs :
       \/ StartRun(p)
       \/ TruncateSave(p)
       \/ Resolve(p)
       \/ AcquireSelect(p)
       \/ AcquireWrite(p)
       \/ Complete(p)
       \/ Load(p)
       \/ SaveCheckpoint(p)
       \/ Release(p)
       \/ Record(p)

SpecUpstream == InitUpstream /\ [][NextUpstream]_vars

(* the page in p's hands reports fewer records than asked for, and more to come *)
ShortPage(p) ==
    /\ proc[p].page # NoPage
    /\ proc[p].page.returned < CHUNK_SIZE
    /\ proc[p].page.has_more

(* C16: a yielded page with returned < limit and has_more = true is loaded, *)
(* and when the generator resumes after it the run goes on fetching with    *)
(* its status unchanged and, below the page cap, with a request for the     *)
(* next offset never asked for added to those in flight.                    *)
C16_ShortPageContinues ==
    [][\A p \in Procs :
          /\ (Steps(p, "load") /\ ShortPage(p))
              => (/\ proc'[p].pc = "save"
                  /\ \A i \in DOMAIN proc[p].page.items :
                        \E t \in purchase_orders' :
                           t.purchase_order_id = proc[p].page.items[i].purchase_order_id)
          /\ (Steps(p, "save") /\ ShortPage(p))
              => (/\ proc'[p].status = proc[p].status
                  /\ proc'[p].page_counter = proc[p].page_counter + 1
                  /\ proc'[p].page_counter < max_pages
                        => (/\ proc'[p].pc = "fetch"
                            /\ proc'[p].submitted =
                                  proc[p].submitted \cup {proc[p].next_offset}
                            /\ proc[p].next_offset \notin proc[p].submitted
                            /\ proc'[p].next_offset > proc[p].next_offset))]_vars

(* a run that loaded a short page is fetching on, the request added after *)
(* that page among those in flight                                         *)
C16_Witness ==
    \E p \in Procs :
       /\ upstream = "short"
       /\ proc[p].pc = "fetch"
       /\ proc[p].pages_saved = 1
       /\ proc[p].returned_sum < CHUNK_SIZE
       /\ proc[p].next_offset - CHUNK_SIZE \in proc[p].submitted

(* C20: the generator never yields more than max_pages pages. *)
C20_AtMostMaxPages == \A p \in Procs : proc[p].page_counter <= max_pages

----------------------------------------------------------------------------
(* HTTP Fetch Client: one call of fetch_offset, request by request.  The  *)
(* session's adapter retries inside session.get (make_session), tenacity  *)
(* re-runs the whole function (the decorator of fetch_offset).            *)

stop_after_attempt == 5
Retry_total == 3

status_forcelist == {"429", "500", "502", "503", "504"}

(* what one HTTP request can end in *)
Outcomes == {"connection error", "429", "503", "404", "200", "200 malformed json"}

(* lines 196-202: the adapter repeats a GET on a connection error and on a *)
(* status of the forcelist                                                 *)
AdapterRetries(outcome) == outcome = "connection error" \/ outcome \in status_forcelist

(* lines 220-229: the exception the body of fetch_offset ends with, if any *)
Raised(outcome) ==
    IF outcome = "connection error" THEN "ConnectionError"
    ELSE IF outcome \in status_forcelist THEN "RetryError"
    ELSE IF outcome = "200" THEN NULL
    ELSE IF outcome = "200 malformed json" THEN "JSONDecodeError"
    ELSE "HTTPError"

(* retry_if_exception_type((requests.exceptions.RequestException,)); the   *)
(* error of resp.json() is a RequestException from requests 2.27 on and a  *)
(* plain ValueError before                                                 *)
IsRequestException(exc, json_error_is_request_exception) ==
    \/ exc \in {"ConnectionError", "RetryError", "HTTPError"}
    \/ exc = "JSONDecodeError" /\ json_error_is_request_exception

(* tenacity after one run of the function body *)
AfterAttempt(c, exc) ==
    IF exc = NULL THEN [c EXCEPT !.state = "returned"]
    ELSE IF IsRequestException(exc, c.json_error_is_request_exception)
            /\ c.attempt < stop_after_attempt
    THEN [c EXCEPT !.attempt = c.attempt + 1, !.tries = 0]
    ELSE [c EXCEPT !.state = "raised", !.error = exc]

NewCall(requests_build) ==
    [state |-> "attempting", attempt |-> 1, tries |-> 0, requests |-> 0,
     last |-> NULL, error |-> NULL,
     json_error_is_request_exception |-> requests_build]

(* one HTTP request of the call and what follows from its outcome *)
Request ==
    /\ call.state = "attempting"
    /\ \E outcome \in Outcomes :
          LET made == [call EXCEPT !.tries = call.tries + 1,
                                   !.requests = call.requests + 1,
                                   !.last = outcome]
          IN  call' = IF AdapterRetries(outcome) /\ made.tries <= Retry_total
                      THEN made
                      ELSE AfterAttempt(made, Raised(outcome))
    /\ UNCHANGED <<etlVars, upstream, runVars, last_eval, batchVars>>

InitClient ==
    /\ EmptyStore
    /\ ExactUpstream /\ NoInvocation /\ NoEvaluation /\ NoBatches
    /\ FETCH_WORKERS = 1
    /\ source_rows = 0
    /\ proc = [p \in Procs |-> AbsentProc]
    /\ \E requests_build \in BOOLEAN : call = NewCall(requests_build)

NextClient == Request

SpecClient == InitClient /\ [][NextClient]_vars

(* the outcomes the claim calls fatal *)
Fatal == {"404", "200 malformed json"}

(* C17: a request of a fetch_offset call is followed by another request   *)
(* of that call only if it ended in a connection error, a 429 or a 5xx; a *)
(* request that ends in another 4xx or in a malformed body ends the call  *)
(* with its error; a call makes at most stop_after_attempt times          *)
(* (Retry_total + 1) requests.                                            *)
C17_RetryOnlyRetryable ==
    /\ [](call.requests <= stop_after_attempt * (Retry_total + 1))
    /\ [][call'.requests = call.requests + 1
             => (/\ call.last # NULL => call.last \notin Fatal
                 /\ call'.last \in Fatal
                       => (call'.state = "raised" /\ call'.error # NULL))]_vars

----------------------------------------------------------------------------
(* The requests parallel_fetch has in flight *)

InFlight(p) == proc[p].submitted

(* C21: while a run fetches, at most FETCH_WORKERS page requests are in   *)
(* flight and every one of them is for an offset below next_offset; the   *)
(* initial batch is FETCH_WORKERS requests for distinct offsets; a        *)
(* request added later is one request, for next_offset, which then moves  *)
(* up: no offset is requested twice within a fetch.                       *)
C21_BoundedDistinctRequests ==
    /\ [](\A p \in Procs :
             /\ Cardinality(InFlight(p)) <= FETCH_WORKERS
             /\ \A q \in InFlight(p) : q < proc[p].next_offset)
    /\ [][\A p \in Procs :
             LET added == InFlight(p)' \ InFlight(p)
             IN  IF Steps(p, "lock_write")
                 THEN Cardinality(added) = FETCH_WORKERS
                 ELSE /\ Cardinality(added) <= 1
                      /\ \A q \in added : /\ q = proc[p].next_offset
                                          /\ proc'[p].next_offset > q]_vars

(* a fetch that has yielded pages has FETCH_WORKERS requests in flight, *)
(* one of them submitted after the initial batch                        *)
C21_Witness ==
    \E p \in Procs :
       /\ proc[p].pc = "fetch"
       /\ proc[p].page_counter >= 1
       /\ Cardinality(InFlight(p)) = FETCH_WORKERS
       /\ \E q \in InFlight(p) : q >= proc[p].offset + FETCH_WORKERS * CHUNK_SIZE

(* C22: while the generator waits for a request to complete and no       *)
(* terminal signal has been seen (no page with has_more = false, fewer    *)
(* than max_pages pages yielded), FETCH_WORKERS requests are in flight:   *)
(* every request that completed, with a page or with a failure, has been  *)
(* replaced by one for the next offset.                                   *)
C22_PoolStaysSaturated ==
    \A p \in Procs :
       (proc[p].pc = "fetch" /\ proc[p].page_counter < max_pages)
           => Cardinality(InFlight(p)) = FETCH_WORKERS

----------------------------------------------------------------------------
(* Response bodies and their normalisation: fetch_offset of the resilient *)
(* ingest and the page loop of fetch_po_data_range (extract/sap)          *)

PAGE_SIZE == 2
MAX_PAGES == 3

(* the JSON shapes a source answers with: a bare list of the items, a     *)
(* number, or an object that holds the items under one key ("d" holding   *)
(* the list, "d.results" an object d with the list under results,         *)
(* "d.other" an object d without results), with or without a pagination   *)
(* object                                                                 *)
ResultKeys == {"purchase_orders", "data", "d", "d.results", "d.other", "results", "value"}

NoBody == [shape |-> "none", key |-> NULL, items |-> <<>>, paginated |-> FALSE,
           returned |-> 0, has_more |-> FALSE]

Bodies(off, limit, total) ==
    LET page == SourcePage(off, limit, total)
        bare(shape) == [shape |-> shape, key |-> NULL, items |-> page.items,
                        paginated |-> FALSE, returned |-> page.returned,
                        has_more |-> page.has_more]
    IN  {bare("list"), bare("number")}
        \cup {[shape |-> "object", key |-> k, items |-> page.items,
               paginated |-> pg, returned |-> page.returned,
               has_more |-> page.has_more] : k \in ResultKeys, pg \in BOOLEAN}

(* fetch_offset lines 229-243: js.get on anything but an object raises   *)
(* AttributeError, which tenacity does not retry                          *)
universal_normalization(offset, js) ==
    IF js.shape # "object" THEN FetchFailed(offset)
    ELSE LET items == IF js.key \in {"purchase_orders", "data"} THEN js.items
                      ELSE <<>>
         IN  [ok       |-> TRUE,
              offset   |-> offset,
              items    |-> items,
              returned |-> IF js.paginated THEN js.returned ELSE Len(items),
              has_more |-> IF js.paginated THEN js.has_more ELSE items # <<>>]

(* fetch_po_data_range lines 74-82; `"d" in data` on a number raises     *)
(* TypeError, re-raised at line 127                                       *)
results_of(data) ==
    IF data.shape = "list" THEN [ok |-> TRUE, results |-> data.items]
    ELSE IF data.shape # "object" THEN [ok |-> FALSE, results |-> <<>>]
    ELSE IF data.key \in {"d", "d.results", "results"}
    THEN [ok |-> TRUE, results |-> data.items]
    ELSE [ok |-> TRUE, results |-> <<>>]

NewFetch(fn) ==
    [fn |-> fn, state |-> "paging", page |-> IF fn = "fetch_po_data_range" THEN 1 ELSE 0,
     body |-> NoBody, saved |-> 0]

(* lines 272-294 and 513-516 with the response body drawn: one request of *)
(* the current pass completes                                             *)
CompleteBody(p) ==
    /\ proc[p].pc = "fetch"
    /\ call.fn = "fetch_offset"
    /\ \E off \in proc[p].pending :
       \E js \in Bodies(off, CHUNK_SIZE, source_rows) :
          LET result == universal_normalization(off, js)
              popped == [proc[p] EXCEPT !.submitted = proc[p].submitted \ {off},
                                        !.pending = proc[p].pending \ {off}]
          IN  /\ call' = [call EXCEPT !.page = off, !.body = js,
                                      !.state = IF result.ok THEN "returned"
                                                ELSE "raised"]
              /\ IF ~result.ok
                 THEN proc' = [proc EXCEPT ![p] =
                                 NextPass([popped EXCEPT !.fetch_failed = TRUE])]
                 ELSE IF result.items = <<>>
                 THEN proc' = [proc EXCEPT ![p] = Resume([popped EXCEPT !.page = result])]
                 ELSE proc' = [proc EXCEPT ![p] =
                                 [popped EXCEPT !.page = result, !.pc = "load"]]
    /\ UNCHANGED <<now, ticks, runs, overran, FETCH_WORKERS, source_rows, etl_lock,
                   etl_checkpoint, purchase_orders, etl_run_log, last_load>>
    /\ UNCHANGED <<upstream, runVars, last_eval, batchVars>>

(* fetch_po_data_range lines 45-128: one turn of the page loop; the date  *)
(* range is taken to cover every item                                     *)
RangePage ==
    /\ call.fn = "fetch_po_data_range"
    /\ call.state = "paging"
    /\ \E data \in Bodies((call.page - 1) * PAGE_SIZE, PAGE_SIZE, source_rows) :
          LET res == results_of(data)
          IN  call' = IF ~res.ok
                      THEN [call EXCEPT !.body = data, !.state = "raised"]
                      ELSE IF res.results = <<>>
                      THEN [call EXCEPT !.body = data, !.state = "returned"]
                      ELSE [call EXCEPT !.body = data,
                                        !.saved = call.saved + 1,
                                        !.page = call.page + 1,
                                        !.state = IF call.page + 1 > MAX_PAGES
                                                  THEN "returned" ELSE "paging"]
    /\ UNCHANGED <<etlVars, upstream, runVars, last_eval, batchVars>>

InitBody ==
    /\ EmptyStore
    /\ ExactUpstream /\ NoInvocation /\ NoEvaluation /\ NoBatches
    /\ FETCH_WORKERS = 1
    /\ source_rows \in 1..MaxSourceRows
    /\ \E fn \in {"fetch_offset", "fetch_po_data_range"} :
          /\ call = NewFetch(fn)
          /\ proc = [p \in Procs |-> IF p = "p1" /\ fn = "fetch_offset"
                                     THEN IdleProc("daily", FALSE) ELSE AbsentProc]

NextBody ==
    \/ \E p \in Procs :
          \/ StartRun(p)
          \/ Resolve(p)
          \/ AcquireSelect(p)
          \/ AcquireWrite(p)
          \/ CompleteBody(p)
          \/ Load(p)
          \/ SaveCheckpoint(p)
          \/ Release(p)
          \/ Record(p)
    \/ RangePage

SpecBody == InitBody /\ [][NextBody]_vars

(* the body is neither a bare list nor an object with a results key that *)
(* the function reads                                                     *)
Unrecognised(fn, js) ==
    \/ js.shape = "number"
    \/ /\ js.shape = "object"
       /\ js.key \notin (IF fn = "fetch_offset" THEN {"purchase_orders", "data"}
                         ELSE {"d", "d.results", "results"})

(* C23: a response body that is neither a bare list nor an object with a *)
(* recognised results key makes the fetch of that page fail (it raises);  *)
(* its page is not returned as an empty one.                              *)
C23_UnrecognisedBodyFails ==
    [][(call'.body # call.body \/ call'.page # call.page \/ call'.state # call.state)
          /\ Unrecognised(call'.fn, call'.body)
       => call'.state = "raised"]_vars

----------------------------------------------------------------------------
(* upsert_dataframe called with a chunk size that splits the page, and a *)
(* connection that may be lost while a chunk is written                   *)

(* range(0, total, chunk_size) *)
NumChunks(total, chunk_size) == (total + chunk_size - 1) \div chunk_size

(* df.iloc[start : start + chunk_size] of the k-th turn of the loop *)
Chunk(df, chunk_size, k) ==
    SubSeq(df, (k - 1) * chunk_size + 1, Min(k * chunk_size, Len(df)))

LoadChunked ==
    /\ \E items \in SamplePages, chunk_size \in 1..MaxPageOrders :
          LET df      == transform_page_fast(items)
              n       == NumChunks(Len(df), chunk_size)
              rejects == {k \in 1..n : HasDuplicateKey(Chunk(df, chunk_size, k))}
          IN  \E lost \in 0..n :
                 LET failing == rejects \cup (IF lost = 0 THEN {} ELSE {lost})
                     first   == IF failing = {} THEN 0
                                ELSE CHOOSE k \in failing : \A j \in failing : k <= j
                     res     == upsert_dataframe(df, purchase_orders, chunk_size)
                 IN  /\ purchase_orders' = IF first = 0 THEN res.table
                                           ELSE purchase_orders
                     /\ last_load' = [df |-> df, before |-> purchase_orders,
                                      ok |-> first = 0,
                                      written |-> IF first = 0 THEN res.written ELSE {},
                                      chunk_size |-> chunk_size,
                                      failed_chunk |-> first]
    /\ UNCHANGED <<now, ticks, runs, overran, FETCH_WORKERS, source_rows, etl_lock,
                   etl_checkpoint, etl_run_log, proc>>
    /\ UNCHANGED aux

NextChunk == LoadChunked

SpecChunk == InitLoad /\ [][NextChunk]_vars

(* C24: when the write of chunk k of a load call fails, the records of   *)
(* chunks 1..k-1 of that call are in the target table as their own       *)
(* upserts left them.                                                     *)
C24_EarlierChunksCommitted ==
    (last_load # NoLoad /\ ~last_load.ok)
        => LET earlier == Take(last_load.df,
                               (last_load.failed_chunk - 1) * last_load.chunk_size)
           IN  purchase_orders =
                  UpsertChunks(last_load.before, earlier, last_load.chunk_size).table

----------------------------------------------------------------------------
(* The checkpoint of historical runs *)

Historical(p) == proc[p].MODE = "historical"

StoredOffset(p) == get_checkpoint(etl_checkpoint, Job(p)).last_offset

(* C25: a historical run writes offset 0 to its checkpoint only in the    *)
(* save that follows its own truncate of the target table; a historical   *)
(* run that does not truncate resolves its starting offset to the stored  *)
(* one, leaves the checkpoint as it is and sends its first request for    *)
(* that offset, whatever the day of last_run and however many runs were   *)
(* started before.                                                        *)
C25_HistoricalOffsetKept ==
    [][\A p \in Procs :
          Historical(p) =>
             /\ (/\ etl_checkpoint'[Job(p)] # etl_checkpoint[Job(p)]
                 /\ etl_checkpoint'[Job(p)].last_offset = 0)
                   => (/\ proc[p].pc = "truncate_save"
                       /\ proc[p].HISTORICAL_TRUNCATE
                       /\ purchase_orders = {})
             /\ (Steps(p, "resolve") /\ ~proc[p].HISTORICAL_TRUNCATE)
                   => (/\ proc'[p].offset = StoredOffset(p)
                       /\ proc'[p].pc = "acquire"
                       /\ etl_checkpoint' = etl_checkpoint)
             /\ (Steps(p, "lock_write") /\ ~proc[p].HISTORICAL_TRUNCATE)
                   => (/\ proc[p].offset = StoredOffset(p)
                       /\ proc[p].offset \in InFlight(p)'
                       /\ \A q \in InFlight(p)' : q >= proc[p].offset)]_vars

(* a later historical run without truncate, started on a later day than  *)
(* the checkpoint's last_run, fetches from the stored offset, which is    *)
(* not 0                                                                  *)
C25_Witness ==
    \E p \in Procs :
       /\ Historical(p) /\ ~proc[p].HISTORICAL_TRUNCATE
       /\ runs >= 2
       /\ proc[p].pc = "fetch"
       /\ proc[p].page_counter = 0
       /\ proc[p].offset = StoredOffset(p)
       /\ proc[p].offset > 0
       /\ DateOf(etl_checkpoint[Job(p)].last_run) < DateOf(now)

----------------------------------------------------------------------------
(* What a run does before it holds the Run Lock *)

BeforeLock == {"idle", "truncate_save", "resolve", "reset_save", "acquire"}

(* C26: a run does not truncate the target table nor write the checkpoint *)
(* before it has acquired the Run Lock: while another run of the job is   *)
(* in its fetch/load loop, the steps a run takes up to and including its  *)
(* acquire_lock leave the checkpoint rows and the target table as they    *)
(* were.                                                                  *)
C26_LockBeforeWrites ==
    [][\A p, q \in Procs :
          (/\ p # q
           /\ Job(p) = Job(q)
           /\ InLoop(q)
           /\ \E at \in BeforeLock : Steps(p, at))
          => (/\ purchase_orders' = purchase_orders
              /\ etl_checkpoint' = etl_checkpoint)]_vars

----------------------------------------------------------------------------
(* mark_batch_complete and mark_batch_failed as the functions they are:   *)
(* called with a batch id, whatever the state of that batch; the UPDATE   *)
(* waits while another transaction holds the row's lock                   *)

(* lines 107-121: UPDATE .. SET status = 'COMPLETED' .. WHERE batch_id = %s *)
mark_batch_complete(table, batch_id) ==
    IF batch_id \in DOMAIN table
    THEN [table EXCEPT ![batch_id].status = "COMPLETED"]
    ELSE table

(* lines 123-136: UPDATE .. SET status = 'FAILED', error_message = .. WHERE batch_id = %s *)
mark_batch_failed(table, batch_id, error_msg) ==
    IF batch_id \in DOMAIN table
    THEN [table EXCEPT ![batch_id].status = "FAILED",
                       ![batch_id].error_message = error_msg]
    ELSE table

CallMarkComplete(c) ==
    /\ caller[c].pc = "idle"
    /\ \E batch_id \in BatchIds :
          /\ ~LockedByOther(row_locks, batch_id, c)
          /\ etl_batches' = mark_batch_complete(etl_batches, batch_id)
    /\ caller' = [caller EXCEPT ![c] = [IdleCaller EXCEPT !.got = "marked"]]
    /\ UNCHANGED <<row_locks, handed_out>>
    /\ UNCHANGED notBatch

CallMarkFailed(c) ==
    /\ caller[c].pc = "idle"
    /\ \E batch_id \in BatchIds :
          /\ ~LockedByOther(row_locks, batch_id, c)
          /\ etl_batches' = mark_batch_failed(etl_batches, batch_id, "error")
    /\ caller' = [caller EXCEPT ![c] = [IdleCaller EXCEPT !.got = "marked"]]
    /\ UNCHANGED <<row_locks, handed_out>>
    /\ UNCHANGED notBatch

NextMark ==
    \/ NextBatch
    \/ \E c \in Callers : CallMarkComplete(c) \/ CallMarkFailed(c)

SpecMark == InitBatch /\ [][NextMark]_vars

BatchMoves ==
    {<<"PENDING", "IN_PROGRESS">>, <<"IN_PROGRESS", "COMPLETED">>,
     <<"IN_PROGRESS", "FAILED">>, <<"FAILED", "PENDING">>}

(* C27: the status of a batch changes only along PENDING -> IN_PROGRESS  *)
(* -> COMPLETED or FAILED and FAILED -> PENDING, the last only in the     *)
(* update of reset_batches: no batch becomes COMPLETED or FAILED from     *)
(* PENDING, COMPLETED or FAILED.                                          *)
C27_BatchLifecycle ==
    [][\A b \in DOMAIN etl_batches \cap DOMAIN etl_batches' :
          etl_batches'[b].status # etl_batches[b].status
             => (/\ <<etl_batches[b].status, etl_batches'[b].status>> \in BatchMoves
                 /\ etl_batches[b].status = "FAILED"
                       => \E c \in Callers : Moves(c, "reset_update", "idle"))]_vars

----------------------------------------------------------------------------
(* The lock row at the end of a run *)

(* C28: the release_lock of a run leaves the lock row of the job in place *)
(* while another run of the job is in its fetch/load loop, be it that the *)
(* releasing run was refused the lock or that its lock was taken over as  *)
(* stale.                                                                 *)
C28_ReleaseSparesHolder ==
    [][\A p, q \in Procs :
          (/\ p # q
           /\ Job(p) = Job(q)
           /\ InLoop(q)
           /\ Steps(p, "release"))
          => JobRows(etl_lock', Job(q)) = JobRows(etl_lock, Job(q))]_vars

----------------------------------------------------------------------------
(* The end of a fetch on has_more = false *)

(* C29: when the page whose checkpoint is being saved reports has_more =  *)
(* false and the fetch ends on it, no request for a lower offset is still *)
(* in flight (its page would be dropped), and with no failed fetch every  *)
(* page of the run below that offset is in the target table.              *)
C29_NoLowerPageDiscarded ==
    [][\A p \in Procs :
          (Steps(p, "save") /\ ~proc[p].page.has_more)
          => (/\ \A q \in InFlight(p) : q > proc[p].page.offset
              /\ ~proc[p].fetch_failed
                    => \A off \in PageOffsets(proc[p].offset) :
                          off < proc[p].page.offset => PageLoaded(off))]_vars

----------------------------------------------------------------------------
(* The baseline of the run being evaluated *)

(* C30: the verdict evaluate_run gives on a run is the one its            *)
(* heuristics give against the baseline of the successful runs recorded   *)
(* before it: the run's own Run Log Entry is not part of its baseline.    *)
C30_BaselineExcludesOwnRun ==
    [][\A p \in Procs :
          Finishes(p) =>
             LET before == evaluate_run(etl_run_log, proc[p].MODE,
                                        proc[p].total_processed,
                                        last_eval'.runtime_seconds)
             IN  /\ last_eval'.ok = before.ok
                 /\ last_eval'.issues = before.issues]_vars

====
